---- MODULE Spec2Model ----
(***************************************************************************)
(* Model of social_extract/util.py: get_graph, the breadth-first,          *)
(* depth-bounded subgraph extractor, and merge_graphs.                     *)
(*                                                                         *)
(* Python dicts whose iteration order the code depends on (seeds,          *)
(* next_hop, hop_users, hop_graph and the fragments node_fn returns) are   *)
(* sequences of <<key, value>> pairs in insertion order.  The two results  *)
(* (users, graph) are plain functions: nothing in get_graph iterates them. *)
(* max_depth is held in quarters (max_depth4 = 4 * max_depth), which keeps *)
(* math.ceil and the float comparison of lines 28-30 exact.                *)
(***************************************************************************)
EXTENDS Integers, Sequences, FiniteSets, TLC

\* Node identifiers of the table fetchers are 1..MaxNode.
MaxNode == 3
\* Largest max_depth, in quarters (9 is 2.25, which rounds up to 3 hops).
MaxDepth4 == 9
\* Most negative max_depth, in quarters (4 is a max_depth of -1).
MaxNegDepth4 == 4
\* Number of KeyboardInterrupts the operator delivers in one run.
MaxInterrupts == 1
\* Identifiers of the graphs merge_graphs is exercised on, and merges per run.
MaxMergeId == 2
MaxMerges == 2

Nodes == 1..MaxNode

VARIABLES
    node_fn,      \* the injected fetcher (fixed during a run)
    seeds,        \* the seeds argument, an ordered dict
    max_depth4,   \* the max_depth argument, in quarters
    users,        \* line 25: id -> name
    graph,        \* line 26: id -> set of ids (a defaultdict(set))
    next_hop,     \* line 27/73: the frontier, an ordered dict
    depth,        \* line 33: the loop variable (0 before the first hop)
    hop_users,    \* line 35
    hop_graph,    \* line 36
    idx,          \* position of the loop of line 39 in next_hop
    eidx,         \* position of the loops of lines 51/58/67 in hop_graph
    pc,           \* where get_graph is
    calls,        \* history: the node_fn calls, <<hop, id, outcome>>, in order
    interrupts,   \* history: KeyboardInterrupts delivered so far
    snaps,        \* history: (users, graph) at the start and after each completed hop
    m_init,       \* merge_graphs on its own: the destination before any merge
    m_dest,       \* merge_graphs on its own: the destination
    m_log         \* merge_graphs on its own: the sources merged so far, in order

run_vars == <<node_fn, seeds, max_depth4, users, graph, next_hop, depth, hop_users,
              hop_graph, idx, eidx, pc, calls, interrupts, snaps>>
merge_vars == <<m_init, m_dest, m_log>>
vars == <<run_vars, merge_vars>>

----------------------------------------------------------------------------
(* Ordered dicts *)

Keys(d) == {d[i][1] : i \in DOMAIN d}

Get(d, k) == d[CHOOSE i \in DOMAIN d : d[i][1] = k][2]

\* d[k] = v: an existing key keeps its position, a new key goes last.
Put(d, k, v) ==
    IF k \in Keys(d)
    THEN [i \in DOMAIN d |-> IF d[i][1] = k THEN <<k, v>> ELSE d[i]]
    ELSE Append(d, <<k, v>>)

RECURSIVE DictUpdate(_, _)
\* dict.update(other): later values overwrite earlier ones.
DictUpdate(d, other) ==
    IF other = <<>> THEN d
    ELSE DictUpdate(Put(d, other[1][1], other[1][2]), Tail(other))

\* Mutant of MergeInto: dest[follower] = follows, an assignment for the union.
MergeIntoAssign(dest, follower, follows) == Put(dest, follower, follows)

\* dest[follower] |= follows, dest an ordered defaultdict(set).
MergeInto(dest, follower, follows) ==
    Put(dest, follower,
        (IF follower \in Keys(dest) THEN Get(dest, follower) ELSE {}) \cup follows)

RECURSIVE merge_graphs(_, _)
\* util.merge_graphs on an ordered destination (hop_graph).
merge_graphs(source, dest) ==
    IF source = <<>> THEN dest
    ELSE merge_graphs(Tail(source), MergeInto(dest, source[1][1], source[1][2]))

\* Mutant of GraphAdd: graph[follower] = follows, an assignment for the union.
GraphAssign(dest, follower, follows) ==
    [k \in DOMAIN dest \cup {follower} |-> IF k = follower THEN follows ELSE dest[k]]

\* dest[follower] |= follows, dest the result graph (a function).
GraphAdd(dest, follower, follows) ==
    [k \in DOMAIN dest \cup {follower} |->
        (IF k \in DOMAIN dest THEN dest[k] ELSE {})
        \cup (IF k = follower THEN follows ELSE {})]

\* users.update(hop_users), users a function.
UsersUpdate(u, other) ==
    [k \in DOMAIN u \cup Keys(other) |->
        IF k \in Keys(other) THEN Get(other, k) ELSE u[k]]

\* dict(seeds), as a function.
AsMap(d) == [k \in Keys(d) |-> Get(d, k)]

\* The edges of a graph, as pairs.
Edges(g) == UNION {{<<f, t>> : t \in g[f]} : f \in DOMAIN g}
OEdges(d) == UNION {{<<d[i][1], t>> : t \in d[i][2]} : i \in DOMAIN d}

----------------------------------------------------------------------------
(* The fetchers *)

UserName(id) == <<"user", id>>

\* test.py _generate_node: '{}{}'.format(user_id, i) appends one decimal digit.
Friend(user_id, i) == 10 * user_id + i

generate_node(user_id) ==
    [ok    |-> TRUE,
     users |-> [i \in 1..4 |-> <<Friend(user_id, i - 1), UserName(Friend(user_id, i - 1))>>],
     graph |-> << <<user_id, {Friend(user_id, 0), Friend(user_id, 1)}>>,
                  <<Friend(user_id, 2), {user_id}>>,
                  <<Friend(user_id, 3), {user_id}>>,
                  <<Friend(user_id, 0), {Friend(user_id, 1)}>> >>]

\* The neighbours a table fetcher reports for x: the next ids around 1..MaxNode.
Succ(x) == (x % MaxNode) + 1

Templates == {"empty", "raise", "chain", "star", "alias", "bare", "ghost"}

\* What node_fn(x, name) does under each template.
Fragment(x, t) ==
    LET s1 == Succ(x)
        s2 == Succ(Succ(x))
    IN CASE t = "empty" -> [ok |-> TRUE, users |-> <<>>, graph |-> <<>>]
         [] t = "raise" -> [ok |-> FALSE, users |-> <<>>, graph |-> <<>>]
         [] t = "chain" -> [ok |-> TRUE,
                            users |-> << <<s1, UserName(s1)>> >>,
                            graph |-> << <<x, {s1}>> >>]
         [] t = "star"  -> [ok |-> TRUE,
                            users |-> << <<s1, UserName(s1)>>, <<s2, UserName(s2)>> >>,
                            graph |-> << <<x, {s1}>>, <<s2, {x}>>, <<s1, {s2}>> >>]
         [] t = "alias" -> [ok |-> TRUE,
                            users |-> << <<s2, <<"alt", x>> >>, <<x, <<"alt", x>> >> >>,
                            graph |-> << <<x, {s2}>> >>]
         [] t = "bare"  -> [ok |-> TRUE,
                            users |-> << <<s1, UserName(s1)>> >>,
                            graph |-> << <<x, {s1, s2}>>, <<s2, {x}>> >>]
         [] t = "ghost" -> [ok |-> TRUE,
                            users |-> << <<s1, UserName(s1)>> >>,
                            graph |-> << <<x, {s1}>>, <<s2, {}>> >>]

\* node_fn(node_id, node_name): ok = FALSE is a raised exception.
NodeFn(fn, node_id) ==
    IF fn.kind = "generate" THEN generate_node(node_id)
    ELSE Fragment(node_id, fn.table[node_id])

----------------------------------------------------------------------------
(* get_graph, step by step *)

\* Mutant of MaxDepthInt: range(1, max_depth_int + 2) on line 33, one round
\* too many.
MaxDepthIntOneMore(md4) == (IF md4 % 4 = 0 THEN md4 \div 4 ELSE (md4 \div 4) + 1) + 1

\* Mutant of MaxDepthInt: int(max_depth) + 1 for math.ceil(max_depth).
MaxDepthIntFloorPlusOne(md4) == (md4 \div 4) + 1

\* Mutant of MaxDepthInt: int(max_depth) for math.ceil(max_depth).
MaxDepthIntFloor(md4) == md4 \div 4

\* line 28: math.ceil(max_depth).
MaxDepthInt(md4) == IF md4 % 4 = 0 THEN md4 \div 4 ELSE (md4 \div 4) + 1
\* line 29.
IncludeLastHopNodes(md4) == 4 * MaxDepthInt(md4) = md4
\* line 30.
HalfDepth(md4) == 4 * MaxDepthInt(md4) # md4

\* Mutant of InnerCatches: "except KeyboardInterrupt:" on line 42.
InnerCatchesInterruptOnly(kind) == kind = "KeyboardInterrupt"

\* line 42: the bare except clause catches every kind of exception.
InnerCatches(kind) == kind \in {"Exception", "KeyboardInterrupt"}

\* Mutant of OuterCatches: "except Exception:" on line 79, which a
\* KeyboardInterrupt passes.
OuterCatchesException(kind) == kind = "Exception"

\* line 79: except KeyboardInterrupt.
OuterCatches(kind) == kind = "KeyboardInterrupt"

\* Mutant of FetchInto: the fragment replaces the hop aggregate (lines 46-47
\* assign for update and merge).
FetchIntoAssign(fn, agg, node_id) ==
    LET r == NodeFn(fn, node_id)
    IN IF r.ok THEN [users |-> r.users, graph |-> r.graph] ELSE agg

\* lines 40-47: one iteration of the fetch loop on the hop aggregate.
FetchInto(fn, agg, node_id) ==
    LET r == NodeFn(fn, node_id)
    IN IF r.ok
       THEN [users |-> DictUpdate(agg.users, r.users),
             graph |-> merge_graphs(r.graph, agg.graph)]
       ELSE agg

\* Mutant of LastHopHalf: line 60 without "& known_nodes".
LastHopHalfUnfiltered(g, known, follower, follows) ==
    IF follower \in known THEN GraphAdd(g, follower, follows) ELSE g

\* lines 56-60: one iteration of the half-depth last-hop loop.
LastHopHalf(g, known, follower, follows) ==
    IF follower \in known THEN GraphAdd(g, follower, follows \cap known) ELSE g

\* Mutant of LastHopWhole: line 69 filters like line 71.
LastHopWholeFiltered(g, known, follower, follows) ==
    GraphAdd(g, follower, follows \cap known)

\* Mutant of LastHopWhole: line 71 without "& known_nodes".
LastHopWholeUnfiltered(g, known, follower, follows) ==
    GraphAdd(g, follower, follows)

\* lines 65-71: one iteration of the whole-depth last-hop loop.
LastHopWhole(g, known, follower, follows) ==
    IF follower \in known THEN GraphAdd(g, follower, follows)
    ELSE GraphAdd(g, follower, follows \cap known)

\* lines 49-71: what one entry of hop_graph does to graph at hop d.
EdgeStep(md4, d, g, u, frontier, follower, follows) ==
    IF d < MaxDepthInt(md4) THEN GraphAdd(g, follower, follows)
    ELSE IF HalfDepth(md4)
         THEN LastHopHalf(g, DOMAIN u \cup Keys(frontier), follower, follows)
         ELSE LastHopWhole(g, DOMAIN u, follower, follows)

\* Mutant of NextFrontier: next_hop = hop_users, known users not filtered out.
NextFrontierUnfiltered(hu, u) == hu

\* line 73.
NextFrontier(hu, u) == SelectSeq(hu, LAMBDA e : e[1] \notin DOMAIN u)

\* Mutant of HopUsers: line 77 without the condition of line 76.
HopUsersAlways(md4, d, u, hu) == UsersUpdate(u, hu)

\* Mutant of HopUsers: users = dict(hop_users) for users.update(hop_users).
HopUsersReplace(md4, d, u, hu) ==
    IF d < MaxDepthInt(md4) \/ IncludeLastHopNodes(md4) THEN AsMap(hu) ELSE u

\* Mutant of HopUsers: the users of the last hop are never added (line 76
\* without "or include_last_hop_nodes").
HopUsersNeverLast(md4, d, u, hu) ==
    IF d < MaxDepthInt(md4) THEN UsersUpdate(u, hu) ELSE u

\* lines 76-77.
HopUsers(md4, d, u, hu) ==
    IF d < MaxDepthInt(md4) \/ IncludeLastHopNodes(md4) THEN UsersUpdate(u, hu) ELSE u

Snapshot == [users |-> users, graph |-> graph]

\* Where control goes when an exception of this kind leaves node_fn.
AfterRaise(kind) ==
    IF InnerCatches(kind) THEN "fetch"
    ELSE IF OuterCatches(kind) THEN "interrupted"
    ELSE "raised"

\* The state after lines 25-30, for one choice of the arguments.
Start(fn, sd, md4) ==
    /\ node_fn = fn
    /\ seeds = sd
    /\ max_depth4 = md4
    /\ users = AsMap(sd)
    /\ graph = <<>>
    /\ next_hop = sd
    /\ depth = 0
    /\ hop_users = <<>>
    /\ hop_graph = <<>>
    /\ idx = 1
    /\ eidx = 1
    /\ pc = "hop"
    /\ calls = <<>>
    /\ interrupts = 0
    /\ snaps = << [users |-> AsMap(sd), graph |-> <<>>] >>

SeedChoices ==
    { <<>>,
      << <<1, UserName(1)>> >>,
      << <<1, UserName(1)>>, <<2, UserName(2)>> >>,
      << <<2, UserName(2)>>, <<1, UserName(1)>> >> }

TableFetchers == {[kind |-> "table", table |-> t] : t \in [Nodes -> Templates]}

Init ==
    /\ \E fn \in TableFetchers, sd \in SeedChoices,
          md4 \in (0 - MaxNegDepth4)..MaxDepth4 : Start(fn, sd, md4)
    /\ m_init = <<>>
    /\ m_dest = <<>>
    /\ m_log = <<>>

\* lines 33-36: the next value of range(1, max_depth_int + 1).
BeginHop ==
    /\ pc = "hop"
    /\ depth < MaxDepthInt(max_depth4)
    /\ depth' = depth + 1
    /\ hop_users' = <<>>
    /\ hop_graph' = <<>>
    /\ idx' = 1
    /\ pc' = "fetch"
    /\ UNCHANGED <<node_fn, seeds, max_depth4, users, graph, next_hop, eidx,
                   calls, interrupts, snaps, merge_vars>>

\* lines 39-47: node_fn returns or raises for the next frontier node.
Fetch ==
    /\ pc = "fetch"
    /\ idx <= Len(next_hop)
    /\ LET node_id == next_hop[idx][1]
           ok == NodeFn(node_fn, node_id).ok
           agg == FetchInto(node_fn, [users |-> hop_users, graph |-> hop_graph], node_id)
       IN /\ hop_users' = agg.users
          /\ hop_graph' = agg.graph
          /\ calls' = Append(calls, <<depth, node_id, IF ok THEN "return" ELSE "Exception">>)
          /\ pc' = IF ok THEN "fetch" ELSE AfterRaise("Exception")
    /\ idx' = idx + 1
    /\ UNCHANGED <<node_fn, seeds, max_depth4, users, graph, next_hop, depth,
                   eidx, interrupts, snaps, merge_vars>>

\* lines 41-45: a KeyboardInterrupt arrives while node_fn runs.
FetchInterrupted ==
    /\ pc = "fetch"
    /\ idx <= Len(next_hop)
    /\ interrupts < MaxInterrupts
    /\ interrupts' = interrupts + 1
    /\ calls' = Append(calls, <<depth, next_hop[idx][1], "KeyboardInterrupt">>)
    /\ pc' = AfterRaise("KeyboardInterrupt")
    /\ idx' = idx + 1
    /\ UNCHANGED <<node_fn, seeds, max_depth4, users, graph, next_hop, depth,
                   hop_users, hop_graph, eidx, snaps, merge_vars>>

\* line 39 exhausted: on to line 49.
EndFetch ==
    /\ pc = "fetch"
    /\ idx > Len(next_hop)
    /\ eidx' = 1
    /\ pc' = "edges"
    /\ UNCHANGED <<node_fn, seeds, max_depth4, users, graph, next_hop, depth,
                   hop_users, hop_graph, idx, calls, interrupts, snaps, merge_vars>>

\* lines 49-71: one iteration of the loop over hop_graph that applies.
MergeEdge ==
    /\ pc = "edges"
    /\ eidx <= Len(hop_graph)
    /\ graph' = EdgeStep(max_depth4, depth, graph, users, next_hop,
                         hop_graph[eidx][1], hop_graph[eidx][2])
    /\ eidx' = eidx + 1
    /\ UNCHANGED <<node_fn, seeds, max_depth4, users, next_hop, depth, hop_users,
                   hop_graph, idx, pc, calls, interrupts, snaps, merge_vars>>

\* line 73.
Frontier ==
    /\ pc = "edges"
    /\ eidx > Len(hop_graph)
    /\ next_hop' = NextFrontier(hop_users, users)
    /\ pc' = "users"
    /\ UNCHANGED <<node_fn, seeds, max_depth4, users, graph, depth, hop_users,
                   hop_graph, idx, eidx, calls, interrupts, snaps, merge_vars>>

\* lines 76-77, and back to line 33.
UpdateUsers ==
    /\ pc = "users"
    /\ users' = HopUsers(max_depth4, depth, users, hop_users)
    /\ snaps' = Append(snaps, [users |-> users', graph |-> graph])
    /\ pc' = "hop"
    /\ UNCHANGED <<node_fn, seeds, max_depth4, graph, next_hop, depth, hop_users,
                   hop_graph, idx, eidx, calls, interrupts, merge_vars>>

\* lines 79-82: a KeyboardInterrupt arrives between two steps of the try block.
Interrupt ==
    /\ pc \in {"hop", "fetch", "edges", "users"}
    /\ interrupts < MaxInterrupts
    /\ interrupts' = interrupts + 1
    /\ pc' = IF OuterCatches("KeyboardInterrupt") THEN "interrupted" ELSE "raised"
    /\ UNCHANGED <<node_fn, seeds, max_depth4, users, graph, next_hop, depth,
                   hop_users, hop_graph, idx, eidx, calls, snaps, merge_vars>>

\* line 82 after the loop ran out.
Return ==
    /\ pc = "hop"
    /\ depth >= MaxDepthInt(max_depth4)
    /\ pc' = "done"
    /\ UNCHANGED <<node_fn, seeds, max_depth4, users, graph, next_hop, depth,
                   hop_users, hop_graph, idx, eidx, calls, interrupts, snaps,
                   merge_vars>>

Next ==
    \/ BeginHop
    \/ Fetch
    \/ FetchInterrupted
    \/ EndFetch
    \/ MergeEdge
    \/ Frontier
    \/ UpdateUsers
    \/ Interrupt
    \/ Return

Spec == Init /\ [][Next]_vars

\* The interpreter keeps running get_graph: a step that can be taken is taken,
\* every node_fn call returning or raising.
SpecFair == Spec /\ WF_vars(Next)

----------------------------------------------------------------------------
(* get_graph as a function of its arguments, for runs no interrupt touches *)

RECURSIVE FetchAll(_, _, _)
\* lines 39-47: the fetch loop over the frontier in the given order.
FetchAll(fn, agg, order) ==
    IF order = <<>> THEN agg
    ELSE FetchAll(fn, FetchInto(fn, agg, order[1][1]), Tail(order))

RECURSIVE EdgesAll(_, _, _, _, _, _)
\* lines 49-71: the loop over hop_graph.
EdgesAll(md4, d, g, u, frontier, hg) ==
    IF hg = <<>> THEN g
    ELSE EdgesAll(md4, d, EdgeStep(md4, d, g, u, frontier, hg[1][1], hg[1][2]),
                  u, frontier, Tail(hg))

\* lines 34-77: hop d from st, the frontier fetched in the given order.
Hop(fn, md4, d, st, order) ==
    LET agg == FetchAll(fn, [users |-> <<>>, graph |-> <<>>], order)
    IN [users    |-> HopUsers(md4, d, st.users, agg.users),
        graph    |-> EdgesAll(md4, d, st.graph, st.users, st.next_hop, agg.graph),
        next_hop |-> NextFrontier(agg.users, st.users)]

RECURSIVE Hops(_, _, _, _)
Hops(fn, md4, d, st) ==
    IF d > MaxDepthInt(md4) THEN st
    ELSE Hops(fn, md4, d + 1, Hop(fn, md4, d, st, st.next_hop))

\* lines 25-82.
get_graph(fn, sd, md4) ==
    LET st == Hops(fn, md4, 1, [users |-> AsMap(sd), graph |-> <<>>, next_hop |-> sd])
    IN [users |-> st.users, graph |-> st.graph]

RECURSIVE HopsCalls(_, _, _, _, _)
\* lines 33-41: the <<hop, id>> of the node_fn calls of hops d and later.
HopsCalls(fn, md4, d, st, acc) ==
    IF d > MaxDepthInt(md4) THEN acc
    ELSE HopsCalls(fn, md4, d + 1, Hop(fn, md4, d, st, st.next_hop),
                   acc \o [i \in DOMAIN st.next_hop |-> <<d, st.next_hop[i][1]>>])

\* The node_fn calls of get_graph(fn, sd, md4), in order.
get_graph_calls(fn, sd, md4) ==
    HopsCalls(fn, md4, 1, [users |-> AsMap(sd), graph |-> <<>>, next_hop |-> sd], <<>>)

\* The orders a frontier can be fetched in.
Perms(d) ==
    {[i \in DOMAIN d |-> d[f[i]]] :
        f \in {f \in [DOMAIN d -> DOMAIN d] : \A i, j \in DOMAIN d : f[i] = f[j] => i = j}}

RECURSIVE HopsAnyOrder(_, _, _, _)
HopsAnyOrder(fn, md4, d, sts) ==
    IF d > MaxDepthInt(md4) THEN sts
    ELSE HopsAnyOrder(fn, md4, d + 1,
            UNION {{Hop(fn, md4, d, st, order) : order \in Perms(st.next_hop)} : st \in sts})

\* The results of get_graph over every fetch order of every hop.
AnyOrderResults(fn, sd, md4) ==
    {[users |-> st.users, graph |-> st.graph] :
        st \in HopsAnyOrder(fn, md4, 1,
                  {[users |-> AsMap(sd), graph |-> <<>>, next_hop |-> sd]})}

----------------------------------------------------------------------------
(* The reference graph of test.py *)

\* test.py lines 60, 83, 112, 137: seeds={'1': 'user1'}, max_depth 1, 1.5, 2, 2.5.
InitTest ==
    /\ \E md4 \in {4, 6, 8, 10} :
          Start([kind |-> "generate"], << <<1, UserName(1)>> >>, md4)
    /\ m_init = <<>>
    /\ m_dest = <<>>
    /\ m_log = <<>>

NextTest ==
    \/ BeginHop
    \/ Fetch
    \/ EndFetch
    \/ MergeEdge
    \/ Frontier
    \/ UpdateUsers
    \/ Return

SpecTest == InitTest /\ [][NextTest]_vars

----------------------------------------------------------------------------
(* merge_graphs on its own *)

MergeIds == 1..MaxMergeId

RECURSIVE AsDict(_, _)
\* The ordered dict of a graph g, its keys in the order ks.
AsDict(g, ks) ==
    IF ks = {} THEN <<>>
    ELSE LET k == CHOOSE x \in ks : \A y \in ks : x <= y
         IN <<  <<k, g[k]>> >> \o AsDict(g, ks \ {k})

\* Every graph over MergeIds, as a defaultdict(set).
MergeGraphs ==
    UNION {{AsDict(g, ks) : g \in [ks -> SUBSET MergeIds]} : ks \in SUBSET MergeIds}

InitMerge ==
    /\ m_init \in MergeGraphs
    /\ m_dest = m_init
    /\ m_log = <<>>
    /\ node_fn = [kind |-> "generate"]
    /\ seeds = <<>>
    /\ max_depth4 = 0
    /\ users = <<>>
    /\ graph = <<>>
    /\ next_hop = <<>>
    /\ depth = 0
    /\ hop_users = <<>>
    /\ hop_graph = <<>>
    /\ idx = 1
    /\ eidx = 1
    /\ pc = "merge"
    /\ calls = <<>>
    /\ interrupts = 0
    /\ snaps = <<>>

\* merge_graphs(source, m_dest)
Merge ==
    /\ pc = "merge"
    /\ Len(m_log) < MaxMerges
    /\ \E source \in MergeGraphs :
          /\ m_dest' = merge_graphs(source, m_dest)
          /\ m_log' = Append(m_log, source)
    /\ UNCHANGED <<run_vars, m_init>>

NextMerge == Merge

SpecMerge == InitMerge /\ [][NextMerge]_vars

----------------------------------------------------------------------------
(* Properties *)

\* The calls of hop d that had the given outcome.
CallsOf(d, outcome) == {i \in DOMAIN calls : calls[i][1] = d /\ calls[i][3] = outcome}

\* The edges of the fragment node_fn returns for x.
Reported(x) == OEdges(NodeFn(node_fn, x).graph)

\* The fetcher that returns nothing wherever fn raises.
Silence(fn) ==
    [kind  |-> "table",
     table |-> [x \in Nodes |-> IF fn.table[x] = "raise" THEN "empty" ELSE fn.table[x]]]

\* A run that ended by running out of hops, with no interrupt delivered.
Uninterrupted == pc = "done" /\ interrupts = 0

\* C1: a node_fn failure for one frontier node is isolated: no exception
\* leaves get_graph, every frontier node of the hop is still fetched, and the
\* hop aggregate and the final result are those of the run in which the
\* failing nodes return empty fragments instead.
C1_FetchFailureIsolation ==
    /\ pc # "raised"
    /\ pc = "edges" =>
          \A i \in DOMAIN next_hop :
              \E j \in DOMAIN calls : calls[j][1] = depth /\ calls[j][2] = next_hop[i][1]
    /\ (pc = "edges" /\ interrupts = 0) =>
          [users |-> hop_users, graph |-> hop_graph]
              = FetchAll(Silence(node_fn), [users |-> <<>>, graph |-> <<>>], next_hop)
    /\ Uninterrupted => Snapshot = get_graph(Silence(node_fn), seeds, max_depth4)

\* C1 witness: a finished run whose first hop had one failing and one
\* succeeding frontier node, the edges of the latter in the result.
C1_Witness ==
    /\ Uninterrupted
    /\ MaxDepthInt(max_depth4) >= 2
    /\ Len(seeds) = 2
    /\ \E i \in CallsOf(1, "Exception"), j \in CallsOf(1, "return") :
          /\ Reported(calls[j][2]) # {}
          /\ Reported(calls[j][2]) \subseteq Edges(graph)

\* C2: a run ended by an interrupt returns exactly the (users, graph) it had
\* at the end of its last completed hop.
C2_CancellationConsistency ==
    pc = "interrupted" => Snapshot = snaps[Len(snaps)]

\* C3: once an interrupt has been delivered, node_fn is not called again.
C3_CancellationStopsImmediately ==
    [][interrupts > 0 => calls' = calls]_vars

\* The arguments the specification accepts.
ValidArguments == max_depth4 >= 0 /\ max_depth4 % 2 = 0 /\ seeds # <<>>

\* C4: with a negative max_depth, one that is no multiple of 0.5, or no
\* seeds, get_graph does not return normally and node_fn is never called.
C4_InvalidConfigurationFailsFast ==
    ~ValidArguments => (calls = <<>> /\ pc \notin {"done", "interrupted"})

\* The edges the successful fetches of the final hop reported.
FinalHopReported ==
    UNION {Reported(calls[i][2]) : i \in CallsOf(MaxDepthInt(max_depth4), "return")}

\* C5: at a whole max_depth n >= 1, an edge reported in the final hop and not
\* merged before it is in the result iff one of its ends was a user before
\* the final hop began.
C5_WholeDepthEdgePolicy ==
    (Uninterrupted /\ max_depth4 >= 4 /\ max_depth4 % 4 = 0) =>
        LET prior == snaps[Len(snaps) - 1]
        IN \A e \in FinalHopReported \ Edges(prior.graph) :
               e \in Edges(graph)
                   <=> (e[1] \in DOMAIN prior.users \/ e[2] \in DOMAIN prior.users)

\* C5 witness: a whole-depth run whose final hop reported an edge between two
\* nodes first seen in that hop (dropped) and an edge that was kept.
C5_Witness ==
    /\ Uninterrupted /\ max_depth4 >= 4 /\ max_depth4 % 4 = 0
    /\ LET prior == snaps[Len(snaps) - 1]
       IN /\ \E e \in FinalHopReported :
                 /\ e[1] \notin DOMAIN prior.users /\ e[2] \notin DOMAIN prior.users
                 /\ {e[1], e[2]} \subseteq DOMAIN users
                 /\ e \notin Edges(graph)
          /\ \E e \in FinalHopReported \ Edges(prior.graph) : e \in Edges(graph)

\* The edges the successful fetches of the run reported.
AllReported == UNION {Reported(calls[i][2]) : i \in {i \in DOMAIN calls : calls[i][3] = "return"}}

\* node_fn labelled every identifier the edges of its fragment for x mention, x aside.
LabelsItsEdges(x) ==
    \A e \in Reported(x) : {e[1], e[2]} \subseteq Keys(NodeFn(node_fn, x).users) \cup {x}

\* A finished run at max_depth n + 0.5.
HalfRun == Uninterrupted /\ max_depth4 >= 0 /\ max_depth4 % 4 = 2

\* C6: at max_depth n + 0.5, with fragments that label the identifiers their
\* edges mention, the result holds exactly the reported edges whose two ends
\* are both users of the result.
C6_HalfDepthEdgePolicy ==
    (HalfRun /\ \A i \in DOMAIN calls : calls[i][3] = "return" => LabelsItsEdges(calls[i][2])) =>
        Edges(graph) = {e \in AllReported : e[1] \in DOMAIN users /\ e[2] \in DOMAIN users}

\* C6 witness: a run at 1.5 or 2.5 that kept an edge between two nodes first
\* seen in hop n, and an edge that only the final hop reported.
C6_Witness ==
    /\ HalfRun /\ max_depth4 >= 6
    /\ \A i \in DOMAIN calls : calls[i][3] = "return" => LabelsItsEdges(calls[i][2])
    /\ LET before == snaps[Len(snaps) - 2]
       IN \E e \in Edges(graph) :
              e[1] \notin DOMAIN before.users /\ e[2] \notin DOMAIN before.users
    /\ \E e \in FinalHopReported \ Edges(snaps[Len(snaps) - 1].graph) : e \in Edges(graph)

\* C7: the run at n + 0.5 returns the users of the run at n, and every edge
\* of it.
C7_HalfDepthExtendsWholeDepth ==
    HalfRun =>
        LET whole == get_graph(node_fn, seeds, max_depth4 - 2)
        IN /\ users = whole.users
           /\ \A k \in DOMAIN whole.graph : k \in DOMAIN graph /\ whole.graph[k] \subseteq graph[k]

\* C7 witness: a half-depth run whose final hop saw a node that is no user of
\* the result, and that kept more edges than the whole-depth run.
C7_Witness ==
    /\ HalfRun
    /\ Keys(hop_users) \ DOMAIN users # {}
    /\ Edges(get_graph(node_fn, seeds, max_depth4 - 2).graph) # Edges(graph)

\* C8: the four results of test.py on the generated graph.
C8_ReferenceGraphResults ==
    pc = "done" =>
        /\ max_depth4 = 4 =>
              /\ Cardinality(DOMAIN users) = 5 /\ Cardinality(Edges(graph)) = 4
              /\ <<10, 11>> \notin Edges(graph)
        /\ max_depth4 = 6 =>
              /\ Cardinality(DOMAIN users) = 5 /\ Cardinality(Edges(graph)) = 5
              /\ <<10, 11>> \in Edges(graph)
              /\ 100 \notin DOMAIN users
        /\ max_depth4 = 8 =>
              /\ Cardinality(DOMAIN users) = 21 /\ Cardinality(Edges(graph)) = 21
              /\ <<100, 101>> \notin Edges(graph)
        /\ max_depth4 = 10 =>
              /\ Cardinality(DOMAIN users) = 21 /\ Cardinality(Edges(graph)) = 25
              /\ <<100, 101>> \in Edges(graph)

\* C8 witness: the run at 2.5 finished, the edge 100 -> 101 in its result.
C8_Witness ==
    /\ pc = "done" /\ node_fn.kind = "generate" /\ max_depth4 = 10
    /\ <<100, 101>> \in Edges(graph)

\* The union of what m_init and the merged sources hold for k.
MergedUnion(k) ==
    (IF k \in Keys(m_init) THEN Get(m_init, k) ELSE {})
    \cup UNION {Get(m_log[i], k) : i \in {i \in DOMAIN m_log : k \in Keys(m_log[i])}}

\* C9: whatever sources were merged, in whatever order and however often,
\* the destination holds for every key the union of what it held and what
\* the sources hold for it.
C9_MergeIsUnion ==
    pc = "merge" =>
        /\ Len(m_dest) = Cardinality(Keys(m_dest))
        /\ Keys(m_dest) = Keys(m_init) \cup UNION {Keys(m_log[i]) : i \in DOMAIN m_log}
        /\ \A k \in Keys(m_dest) : Get(m_dest, k) = MergedUnion(k)

\* C9 witness: two different sources merged into a destination, the three
\* holding different non-empty sets for one key.
C9_Witness ==
    /\ pc = "merge" /\ Len(m_log) = 2
    /\ \E k \in Keys(m_init) \cap Keys(m_log[1]) \cap Keys(m_log[2]) :
          /\ Get(m_init, k) # {} /\ Get(m_log[1], k) # {} /\ Get(m_log[2], k) # {}
          /\ Get(m_init, k) # Get(m_log[1], k)
          /\ Get(m_log[1], k) # Get(m_log[2], k)
          /\ Get(m_init, k) # Get(m_log[2], k)

\* C10 as claimed: the result of a finished run is the result under every
\* fetch order of every hop, for every node_fn.
C10_FetchOrderIndependence ==
    Uninterrupted => AnyOrderResults(node_fn, seeds, max_depth4) = {Snapshot}

\* Every identifier gets the same label from every fragment that labels it.
ConsistentLabels(fn) ==
    \A x, y \in Nodes :
        LET rx == NodeFn(fn, x)
            ry == NodeFn(fn, y)
        IN (rx.ok /\ ry.ok) =>
               \A k \in Keys(rx.users) \cap Keys(ry.users) : Get(rx.users, k) = Get(ry.users, k)

\* C10 amended: the same, for a node_fn that gives each identifier one label.
C10_FetchOrderIndependenceConsistentLabels ==
    (Uninterrupted /\ ConsistentLabels(node_fn)) =>
        AnyOrderResults(node_fn, seeds, max_depth4) = {Snapshot}

\* C10 witness: a finished run with consistent labels whose first hop fetched
\* two nodes that returned different edges of the same follower.
C10_Witness ==
    /\ Uninterrupted /\ ConsistentLabels(node_fn)
    /\ Len(seeds) = 2
    /\ \E i, j \in CallsOf(1, "return") :
          /\ i # j
          /\ LET gi == NodeFn(node_fn, calls[i][2]).graph
                 gj == NodeFn(node_fn, calls[j][2]).graph
             IN \E k \in Keys(gi) \cap Keys(gj) : Get(gi, k) # Get(gj, k)
    /\ graph # <<>>

\* C11 as claimed: at max_depth 0 and at 0.5 node_fn is never called, and
\* the result is the seeds with no edge.
C11_ZeroHopsBelowDepthOne ==
    max_depth4 \in {0, 2} =>
        /\ calls = <<>>
        /\ pc = "done" => (users = AsMap(seeds) /\ Edges(graph) = {})

\* C11 amended: at max_depth 0 node_fn is never called and the result is the
\* seeds with no edge; at 0.5 one hop runs: node_fn is called once for every
\* seed, users stay the seeds, and the result holds exactly the reported
\* edges between two seeds.
C11_ZeroHopsAtDepthZero ==
    /\ max_depth4 = 0 =>
          /\ calls = <<>>
          /\ users = AsMap(seeds) /\ graph = <<>>
    /\ max_depth4 = 2 =>
          /\ users = AsMap(seeds)
          /\ \A i \in DOMAIN calls : calls[i][1] = 1 /\ calls[i][2] = seeds[i][1]
          /\ Uninterrupted =>
                /\ Len(calls) = Len(seeds)
                /\ Edges(graph) = {e \in AllReported : {e[1], e[2]} \subseteq Keys(seeds)}

\* C11 witness: a finished run at 0.5 from two seeds that kept an edge
\* between them and dropped another reported edge.
C11_Witness ==
    /\ Uninterrupted /\ max_depth4 = 2 /\ Len(seeds) = 2
    /\ Edges(graph) # {}
    /\ AllReported \ Edges(graph) # {}

\* The <<hop, id>> of the node_fn calls made so far.
CallSites == [i \in DOMAIN calls |-> <<calls[i][1], calls[i][2]>>]

\* The whole number n of a max_depth n + 0.5.
WholePart == (max_depth4 - 2) \div 4

\* C12 as claimed: the run at n + 0.5 performs the hop rounds and the
\* node_fn calls of the run at n.
C12_HalfDepthIsNoExtraHop ==
    HalfRun =>
        /\ depth = WholePart
        /\ CallSites = get_graph_calls(node_fn, seeds, max_depth4 - 2)

\* C12 amended: the run at n + 0.5 performs n + 1 hop rounds; its first n
\* rounds make the node_fn calls of the run at n, and round n + 1 fetches the
\* frontier left by round n and adds no user.
C12_HalfDepthIsOneMoreHop ==
    HalfRun =>
        /\ depth = WholePart + 1
        /\ Len(snaps) = WholePart + 2
        /\ SelectSeq(CallSites, LAMBDA c : c[1] <= WholePart)
               = get_graph_calls(node_fn, seeds, max_depth4 - 2)
        /\ CallSites = get_graph_calls(node_fn, seeds, max_depth4)
        /\ snaps[WholePart + 2].users = snaps[WholePart + 1].users

\* C12 witness: a finished run at 1.5 or 2.5 whose last round fetched a node.
C12_Witness ==
    /\ HalfRun /\ max_depth4 >= 6
    /\ \E i \in DOMAIN calls : calls[i][1] = WholePart + 1 /\ calls[i][3] = "return"

\* C13: a KeyboardInterrupt delivered during the hop loop never leaves
\* get_graph: the run goes on or returns its (users, graph).
C13_CancellationIsNotACrash ==
    interrupts > 0 => pc \in {"interrupted", "done", "hop", "fetch", "edges", "users"}

\* C13 witness: a run that an interrupt ended in the middle of a hop, edges
\* already in its result.
C13_Witness ==
    pc = "interrupted" /\ depth >= 1 /\ graph # <<>>

\* C14: from one step to the next no user and no edge is removed, and the
\* seeds are users throughout.
C14_MonotonicGrowth ==
    /\ [](Keys(seeds) \subseteq DOMAIN users)
    /\ [][/\ DOMAIN users \subseteq DOMAIN users'
          /\ \A k \in DOMAIN graph : k \in DOMAIN graph' /\ graph[k] \subseteq graph'[k]]_vars

\* C14 witness: a finished run whose first two hops both changed the result.
C14_Witness ==
    /\ pc = "done" /\ Len(snaps) >= 3
    /\ DOMAIN snaps[1].users # DOMAIN snaps[2].users
    /\ DOMAIN snaps[2].users # DOMAIN snaps[3].users
    /\ Edges(snaps[2].graph) # {}
    /\ Edges(snaps[2].graph) # Edges(snaps[3].graph)

\* Every node_fn call so far returned an empty users and an empty edge fragment.
AllEmptySoFar ==
    \A i \in DOMAIN calls :
        /\ calls[i][3] = "return"
        /\ NodeFn(node_fn, calls[i][2]).users = <<>>
        /\ NodeFn(node_fn, calls[i][2]).graph = <<>>

\* C15: while node_fn returns empty fragments, at every valid max_depth the
\* result is the seeds with no edge and node_fn is called in the first hop
\* only.
C15_EmptyNeighborTermination ==
    (max_depth4 >= 0 /\ max_depth4 % 2 = 0 /\ AllEmptySoFar) =>
        /\ users = AsMap(seeds)
        /\ graph = <<>>
        /\ \A i \in DOMAIN calls : calls[i][1] = 1

\* C15 witness: a finished run of two or more hops from two seeds in which
\* both fetches returned nothing.
C15_Witness ==
    /\ Uninterrupted /\ AllEmptySoFar
    /\ max_depth4 % 2 = 0 /\ MaxDepthInt(max_depth4) >= 2
    /\ Len(seeds) = 2 /\ Len(calls) = 2

\* node_fn labelled every identifier the edge fragment for x holds as a key or
\* as a target, x aside.
LabelsItsFragment(x) ==
    LET f == NodeFn(node_fn, x)
    IN \A k \in Keys(f.graph) : ({k} \cup Get(f.graph, k)) \subseteq (Keys(f.users) \cup {x})

\* Every key and every target of the edge set g is a key of u.
Registered(u, g) == \A k \in DOMAIN g : k \in DOMAIN u /\ g[k] \subseteq DOMAIN u

\* C16: with fragments that label what they mention, every key and every
\* target of the edge set is a user at the end of every completed hop and in
\* the result of a run that no interrupt ended.
C16_EdgeEndpointsAreRegistered ==
    (\A i \in DOMAIN calls : calls[i][3] = "return" => LabelsItsFragment(calls[i][2])) =>
        /\ \A i \in DOMAIN snaps : Registered(snaps[i].users, snaps[i].graph)
        /\ Uninterrupted => Registered(users, graph)

\* C16 witness: a finished run of two hops or more with a failed fetch, in
\* which a labelling fragment brought a user and an edge into the result.
C16_Witness ==
    /\ Uninterrupted /\ Len(snaps) >= 3
    /\ \A i \in DOMAIN calls : calls[i][3] = "return" => LabelsItsFragment(calls[i][2])
    /\ \E i \in DOMAIN calls : calls[i][3] = "Exception"
    /\ DOMAIN users # Keys(seeds)
    /\ \E k \in DOMAIN graph : k \notin Keys(seeds) /\ graph[k] # {}

\* The frontier being expanded: next_hop while hop depth fetches and merges.
Expanding == pc \in {"fetch", "edges"}

\* C17: node_fn is called at most once per identifier in a run, a failed
\* fetch included; the frontier of a hop is contained in users and shares no
\* identifier with the users known before the previous hop.
C17_NoNodeExpandedTwice ==
    /\ \A i, j \in DOMAIN calls : i # j => calls[i][2] # calls[j][2]
    /\ Expanding => Keys(next_hop) \subseteq DOMAIN users
    /\ (Expanding /\ depth >= 2) => Keys(next_hop) \cap DOMAIN snaps[depth - 1].users = {}

\* C17 witness: a finished run of three hops in which a fetch failed and a
\* fragment fetched in a later hop labelled the failed node again.
C17_Witness ==
    /\ pc = "done" /\ depth >= 3
    /\ \E i, j \in DOMAIN calls :
           /\ calls[i][3] = "Exception"
           /\ calls[j][1] > calls[i][1]
           /\ calls[j][3] = "return"
           /\ calls[i][2] \in Keys(NodeFn(node_fn, calls[j][2]).users)

\* ceil(max_depth), and zero below zero: the least n >= 0 with n >= max_depth.
CeilDepth ==
    CHOOSE n \in 0..MaxDepth4 :
        4 * n >= max_depth4 /\ \A m \in 0..MaxDepth4 : 4 * m >= max_depth4 => n <= m

\* C18: when every node_fn call returns or raises, get_graph eventually
\* returns, and no run begins more than ceil(max_depth) hop rounds.
C18_BoundedTraversal ==
    /\ [](depth <= CeilDepth /\ Len(snaps) <= CeilDepth + 1)
    /\ <>(pc \in {"done", "interrupted"})

\* C18 witness: a run of three hop rounds that returned after a failed fetch
\* and with a cycle among its edges.
C18_Witness ==
    /\ Uninterrupted /\ depth = 3
    /\ \E i \in DOMAIN calls : calls[i][3] = "Exception"
    /\ \E e \in Edges(graph) : <<e[2], e[1]>> \in Edges(graph)

====
